---- MODULE Spec2Model ----
(***************************************************************************)
(* Model of app.py: the feed fetcher get_feed_data (memoized by            *)
(* st.cache_data with a time-to-live), the series normalizer process_data  *)
(* and the script run create_dashboard.                                    *)
(*                                                                         *)
(* Two specifications:                                                     *)
(*   SpecNorm  one call of process_data, statement by statement, on every  *)
(*             input batch up to MaxLen records;                           *)
(*   Spec      page loads, Refresh clicks and the passing of time around   *)
(*             create_dashboard, with the memo table of get_feed_data.     *)
(*                                                                         *)
(* Units: timestamps are in hours (wall-clock reading and UTC offset),     *)
(* floats are in tenths, the clock of the memo table is in seconds.        *)
(***************************************************************************)
EXTENDS Integers, Sequences, FiniteSets, TLC

VARIABLES
    \* ---- one call of process_data (SpecNorm) ----
    data,            \* the argument of process_data
    idx,             \* position of the for loop in data (1-based)
    times,           \* the list `times`
    values,          \* the list `values`
    warnings,        \* entries reported by st.warning, in order
    npc,             \* "for" | "returned" | "raised"
    result,          \* the DataFrame returned
    raised,          \* the exception that left process_data, "" if none
    \* ---- the dashboard (Spec) ----
    now,             \* the clock the memo table reads
    cache,           \* memo table of get_feed_data: feed key -> entry
    fresh,           \* feed keys not fetched since the last st.cache_data.clear()
    pc,              \* position of the script run
    temp_data_raw,
    humid_data_raw,
    temp_df,
    humid_df,
    processed,       \* the arguments process_data was called with in this run
    sent,            \* requests.get calls of this run: <<[key, response]>>
    errors,          \* st.error messages of this run
    outcome          \* how the run ended

normVars == <<data, idx, times, values, warnings, npc, result, raised>>
dashVars == <<now, cache, fresh, pc, temp_data_raw, humid_data_raw, temp_df,
              humid_df, processed, sent, errors, outcome>>
vars == <<normVars, dashVars>>

----------------------------------------------------------------------------
(* Bounds *)

MaxLen == 3          \* longest batch given to process_data in SpecNorm
MaxClock == 1200     \* the clock stops advancing here

(* Program constants *)

TEMP_FEED_KEY == "temperature"
HUMID_FEED_KEY == "humidity"
TTL == 600

FeedKeys == {TEMP_FEED_KEY, HUMID_FEED_KEY}

----------------------------------------------------------------------------
(* Python values *)

NoneVal == [tag |-> "None"]
List(items) == [tag |-> "list", items |-> items]
IsNone(x) == x.tag = "None"

\* A created_at string: an ISO-8601 wall-clock reading followed by a zone
\* designator, or text that is no timestamp at all.
IsoStr(w, z) == [kind |-> "iso", wall |-> w, zone |-> z]
JunkStr == [kind |-> "junk", wall |-> 0, zone |-> ""]

Walls == {1, 2}
Zones == {"Z", "+01:00"}
CreatedAts == {IsoStr(w, z) : w \in Walls, z \in Zones} \cup {JunkStr}
ValueStrs == {"24.5", "25", "N/A"}

\* Raw records: both keys present, or one of them missing.
Entries ==
    [created_at : CreatedAts, value : ValueStrs]
        \cup {[value |-> "24.5"], [created_at |-> IsoStr(1, "Z")]}

Failed == [ok |-> FALSE, val |-> 0, exc |-> "ValueError"]
KeyError == [ok |-> FALSE, val |-> 0, exc |-> "KeyError"]
Ok(v) == [ok |-> TRUE, val |-> v, exc |-> ""]

\* str.replace("Z", "+00:00")
replace_Z(s) == IF s.zone = "Z" THEN [s EXCEPT !.zone = "+00:00"] ELSE s

\* The UTC offsets datetime.fromisoformat reads, in hours.
UtcOffset(z) == CASE z = "+00:00" -> 0 [] z = "+01:00" -> 1

\* datetime.datetime.fromisoformat: an aware datetime, or ValueError.
fromisoformat(s) ==
    IF s.kind = "iso" /\ s.zone \in {"+00:00", "+01:00"}
    THEN Ok([wall |-> s.wall, utcoffset |-> UtcOffset(s.zone)])
    ELSE Failed

\* float(str)
float(s) ==
    CASE s = "24.5" -> Ok(245)
      [] s = "25" -> Ok(250)
      [] OTHER -> Failed

\* entry["created_at"].replace("Z", "+00:00") through fromisoformat
ParseTime(entry) ==
    IF "created_at" \in DOMAIN entry
    THEN fromisoformat(replace_Z(entry.created_at))
    ELSE KeyError

\* float(entry["value"])
ParseValue(entry) ==
    IF "value" \in DOMAIN entry THEN float(entry.value) ELSE KeyError

\* The instant an aware datetime denotes: what == and < compare.
Instant(dt) == dt.wall - dt.utcoffset

----------------------------------------------------------------------------
(* process_data *)

\* Body of the for loop: times.append runs before float() is tried, so a
\* record whose value fails to parse has already left its timestamp in times.
LoopBody(acc, entry) ==
    LET t == ParseTime(entry)
        v == ParseValue(entry)
    IN  IF ~t.ok
        THEN [acc EXCEPT !.warnings = Append(@, entry)]
        ELSE IF ~v.ok
        THEN [acc EXCEPT !.times = Append(@, t.val),
                         !.warnings = Append(@, entry)]
        ELSE [acc EXCEPT !.times = Append(@, t.val),
                         !.values = Append(@, v.val)]

EmptyAcc == [times |-> <<>>, values |-> <<>>, warnings |-> <<>>]

RECURSIVE Accumulate(_, _)
Accumulate(acc, items) ==
    IF items = <<>> THEN acc
    ELSE Accumulate(LoopBody(acc, Head(items)), Tail(items))

\* pd.DataFrame({"time": times, "value": values}): columns of unequal length
\* are refused with ValueError; otherwise rows are labelled 0..n-1.
DataFrame(ts, vs) ==
    IF Len(ts) # Len(vs)
    THEN [ok |-> FALSE, val |-> <<>>, exc |-> "ValueError"]
    ELSE Ok([i \in 1..Len(ts) |->
                [index |-> i - 1, time |-> ts[i], value |-> vs[i]]])

IndexPermutations(n) ==
    {p \in [1..n -> 1..n] : \A i, j \in 1..n : p[i] = p[j] => i = j}

IsSortedByTime(f) ==
    \A i, j \in 1..Len(f) : i < j => Instant(f[i].time) <= Instant(f[j].time)

sort_values_unsorted(frame) == {frame}

\* .sort_values("time"): the rows in ascending order of time. The default
\* sort is not stable, so rows of equal time may come out in any order.
sort_values(frame) ==
    {g \in {[i \in 1..Len(frame) |-> frame[p[i]]] : p \in IndexPermutations(Len(frame))} :
        IsSortedByTime(g)}

\* .reset_index(drop=True)
reset_index(frame) ==
    [i \in 1..Len(frame) |-> [frame[i] EXCEPT !.index = i - 1]]

Returned(f) == [kind |-> "returned", frame |-> f, exc |-> ""]
Raised(e) == [kind |-> "raised", frame |-> <<>>, exc |-> e]

\* The return statement, from the lists the loop left.
BuildSeries(ts, vs) ==
    LET df == DataFrame(ts, vs)
    IN  IF ~df.ok THEN {Raised(df.exc)}
        ELSE {Returned(reset_index(g)) : g \in sort_values(df.val)}

\* The outcomes of process_data(d).
process_data(d) ==
    IF IsNone(d) THEN {Raised("TypeError")}
    ELSE LET acc == Accumulate(EmptyAcc, d.items)
         IN  BuildSeries(acc.times, acc.values)

----------------------------------------------------------------------------
(* SpecNorm: one call of process_data *)

Batches == UNION {[1..n -> Entries] : n \in 0..MaxLen}
Inputs == {NoneVal} \cup {List(b) : b \in Batches}

Unset == [tag |-> "unset"]
NoEntry == [present |-> FALSE, value |-> NoneVal, created |-> 0, msgs |-> <<>>]
Entry(v, t, m) == [present |-> TRUE, value |-> v, created |-> t, msgs |-> m]

DashInit ==
    /\ now = 0
    /\ cache = [k \in FeedKeys |-> NoEntry]
    /\ fresh = {}
    /\ pc = "idle"
    /\ temp_data_raw = Unset
    /\ humid_data_raw = Unset
    /\ temp_df = <<>>
    /\ humid_df = <<>>
    /\ processed = <<>>
    /\ sent = <<>>
    /\ errors = <<>>
    /\ outcome = "none"

NormInit ==
    /\ data \in Inputs
    /\ idx = 1
    /\ times = <<>>
    /\ values = <<>>
    /\ warnings = <<>>
    /\ npc = "for"
    /\ result = <<>>
    /\ raised = ""

\* `for entry in data` over None: TypeError, outside any try.
ForNone ==
    /\ npc = "for"
    /\ IsNone(data)
    /\ npc' = "raised"
    /\ raised' = "TypeError"
    /\ UNCHANGED <<data, idx, times, values, warnings, result>>
    /\ UNCHANGED dashVars

\* One iteration of the loop.
ForEntry ==
    /\ npc = "for"
    /\ ~IsNone(data)
    /\ idx <= Len(data.items)
    /\ LET acc == LoopBody([times |-> times, values |-> values,
                            warnings |-> warnings], data.items[idx])
       IN  /\ times' = acc.times
           /\ values' = acc.values
           /\ warnings' = acc.warnings
    /\ idx' = idx + 1
    /\ UNCHANGED <<data, npc, result, raised>>
    /\ UNCHANGED dashVars

\* The loop is exhausted: the return statement builds, sorts and renumbers.
Return ==
    /\ npc = "for"
    /\ ~IsNone(data)
    /\ idx > Len(data.items)
    /\ \E out \in BuildSeries(times, values) :
          /\ npc' = out.kind
          /\ result' = out.frame
          /\ raised' = out.exc
    /\ UNCHANGED <<data, idx, times, values, warnings>>
    /\ UNCHANGED dashVars

NormNext ==
    \/ ForNone
    \/ ForEntry
    \/ Return

InitNorm == NormInit /\ DashInit
SpecNorm == InitNorm /\ [][NormNext]_vars

----------------------------------------------------------------------------
(* get_feed_data and its memo table *)

e1 == [created_at |-> IsoStr(1, "Z"), value |-> "24.5"]
e2 == [created_at |-> IsoStr(2, "Z"), value |-> "25"]
eBadTime == [created_at |-> JunkStr, value |-> "25"]
eBadValue == [created_at |-> IsoStr(2, "Z"), value |-> "N/A"]

\* Bodies the remote service answers with.
Bodies == {List(<<>>), List(<<e2, e1>>), List(<<eBadTime>>), List(<<eBadValue, e1>>)}

FailureKinds == {"transport", "http_status", "bad_json"}
Responses ==
    {[kind |-> "ok", body |-> b] : b \in Bodies}
        \cup {[kind |-> f, body |-> NoneVal] : f \in FailureKinds}

\* What the try block raises on a response: requests.get on a transport
\* failure, raise_for_status on a non-success status, response.json() on a
\* body that is not JSON.
RaisedBy(resp) ==
    CASE resp.kind = "transport" -> "ConnectionError"
      [] resp.kind = "http_status" -> "HTTPError"
      [] resp.kind = "bad_json" -> "JSONDecodeError"
      [] OTHER -> ""

IsRequestException_NoJson(exc) == exc \in {"ConnectionError", "HTTPError"}

\* except requests.exceptions.RequestException: the classes it catches
\* (requests.exceptions.JSONDecodeError derives from RequestException).
IsRequestException(exc) == exc \in {"ConnectionError", "HTTPError", "JSONDecodeError"}

\* The body of get_feed_data on the response the request meets.
get_feed_data(feed_key, resp) ==
    LET exc == RaisedBy(resp)
    IN  IF exc = ""
        THEN [kind |-> "return", value |-> resp.body, msgs |-> <<>>, exc |-> ""]
        ELSE IF IsRequestException(exc)
        THEN [kind |-> "return", value |-> NoneVal,
              msgs |-> <<[feed |-> feed_key, cause |-> exc]>>, exc |-> ""]
        ELSE [kind |-> "raise", value |-> NoneVal, msgs |-> <<>>, exc |-> exc]

HitIgnoringTtl(k) == cache[k].present

\* @st.cache_data(ttl=600): an entry is served while it is younger than the
\* time-to-live.
Hit(k) == cache[k].present /\ now - cache[k].created < TTL

StoreOnlySuccess(k, r) ==
    IF IsNone(r.value) THEN cache
    ELSE [cache EXCEPT ![k] = Entry(r.value, now, r.msgs)]

\* The memo table after get_feed_data returned r for key k: whatever it
\* returned is stored, None included, with the messages it showed.
Store(k, r) == [cache EXCEPT ![k] = Entry(r.value, now, r.msgs)]

ClearKeepingEntries == cache

\* st.cache_data.clear()
Clear == [k \in FeedKeys |-> NoEntry]

----------------------------------------------------------------------------
(* create_dashboard *)

FetchPc(k) == IF k = TEMP_FEED_KEY THEN "fetch_temp" ELSE "fetch_humid"
AfterFetch(k) == IF k = TEMP_FEED_KEY THEN "fetch_humid" ELSE "check"

\* The assignment `<k>_data_raw = ...`
Assign(k, v) ==
    IF k = TEMP_FEED_KEY
    THEN temp_data_raw' = v /\ UNCHANGED humid_data_raw
    ELSE humid_data_raw' = v /\ UNCHANGED temp_data_raw

ResetRun ==
    /\ temp_data_raw' = Unset
    /\ humid_data_raw' = Unset
    /\ temp_df' = <<>>
    /\ humid_df' = <<>>
    /\ processed' = <<>>
    /\ sent' = <<>>
    /\ errors' = <<>>
    /\ outcome' = "none"

\* A page load or rerun with the Refresh button not clicked: the script runs
\* from the top to the first fetch.
RunStart ==
    /\ pc \in {"idle", "done"}
    /\ pc' = "fetch_temp"
    /\ ResetRun
    /\ UNCHANGED <<now, cache, fresh>>
    /\ UNCHANGED normVars

\* A click on Refresh Data: the script run it triggers clears the memo table
\* and calls st.rerun(), and the rerun reaches the first fetch.
Refresh ==
    /\ pc = "done"
    /\ cache' = Clear
    /\ fresh' = FeedKeys
    /\ pc' = "fetch_temp"
    /\ ResetRun
    /\ UNCHANGED now
    /\ UNCHANGED normVars

\* <k>_data_raw = get_feed_data(k): served from the memo table with the
\* messages of the stored call shown again, or fetched and stored. An
\* exception leaving get_feed_data ends the run.
Fetch(k) ==
    /\ pc = FetchPc(k)
    /\ fresh' = fresh \ {k}
    /\ IF Hit(k)
       THEN /\ Assign(k, cache[k].value)
            /\ errors' = errors \o cache[k].msgs
            /\ pc' = AfterFetch(k)
            /\ UNCHANGED <<cache, sent, outcome>>
       ELSE \E resp \in Responses :
               LET r == get_feed_data(k, resp)
               IN  /\ sent' = Append(sent, [key |-> k, response |-> resp])
                   /\ IF r.kind = "return"
                      THEN /\ cache' = Store(k, r)
                           /\ Assign(k, r.value)
                           /\ errors' = errors \o r.msgs
                           /\ pc' = AfterFetch(k)
                           /\ UNCHANGED outcome
                      ELSE /\ pc' = "done"
                           /\ outcome' = "exception"
                           /\ UNCHANGED <<cache, temp_data_raw, humid_data_raw, errors>>
    /\ UNCHANGED <<now, temp_df, humid_df, processed>>
    /\ UNCHANGED normVars

FetchTemp == Fetch(TEMP_FEED_KEY)
FetchHumid == Fetch(HUMID_FEED_KEY)

BothNone(a, b) == IsNone(a) /\ IsNone(b)

\* temp_data_raw is None or humid_data_raw is None
AnyNone(a, b) == IsNone(a) \/ IsNone(b)

\* `x or []`
OrEmpty(x) == IF IsNone(x) \/ x = List(<<>>) THEN List(<<>>) ELSE x

UnableToFetch == [feed |-> "", cause |-> "Unable to fetch data from Adafruit IO"]

\* The None check: the error message and return, or on to the normalizer.
CheckFetched ==
    /\ pc = "check"
    /\ IF AnyNone(temp_data_raw, humid_data_raw)
       THEN /\ errors' = Append(errors, UnableToFetch)
            /\ outcome' = "fetch_error"
            /\ pc' = "done"
       ELSE /\ pc' = "process"
            /\ UNCHANGED <<errors, outcome>>
    /\ UNCHANGED <<now, cache, fresh, temp_data_raw, humid_data_raw, temp_df,
                   humid_df, processed, sent>>
    /\ UNCHANGED normVars

\* temp_df = process_data(...); humid_df = process_data(...): an exception
\* leaving either call ends the run.
Normalize ==
    /\ pc = "process"
    /\ \E t \in process_data(OrEmpty(temp_data_raw)) :
          IF t.kind = "raised"
          THEN /\ processed' = <<OrEmpty(temp_data_raw)>>
               /\ outcome' = "exception"
               /\ pc' = "done"
               /\ UNCHANGED <<temp_df, humid_df>>
          ELSE \E h \in process_data(OrEmpty(humid_data_raw)) :
                  /\ processed' = <<OrEmpty(temp_data_raw), OrEmpty(humid_data_raw)>>
                  /\ IF h.kind = "raised"
                     THEN /\ outcome' = "exception"
                          /\ pc' = "done"
                          /\ UNCHANGED <<temp_df, humid_df>>
                     ELSE /\ temp_df' = t.frame
                          /\ humid_df' = h.frame
                          /\ pc' = "present"
                          /\ UNCHANGED outcome
    /\ UNCHANGED <<now, cache, fresh, temp_data_raw, humid_data_raw, sent, errors>>
    /\ UNCHANGED normVars

\* The emptiness check: the warning and return, or the chart and the tables.
Present ==
    /\ pc = "present"
    /\ outcome' = IF temp_df = <<>> /\ humid_df = <<>> THEN "no_data" ELSE "rendered"
    /\ pc' = "done"
    /\ UNCHANGED <<now, cache, fresh, temp_data_raw, humid_data_raw, temp_df,
                   humid_df, processed, sent, errors>>
    /\ UNCHANGED normVars

\* Time passes.
Delays == {299, 300}
Tick ==
    /\ \E d \in Delays :
          /\ now + d <= MaxClock
          /\ now' = now + d
    /\ UNCHANGED <<cache, fresh, pc, temp_data_raw, humid_data_raw, temp_df,
                   humid_df, processed, sent, errors, outcome>>
    /\ UNCHANGED normVars

NormIdle ==
    /\ data = NoneVal
    /\ idx = 1
    /\ times = <<>>
    /\ values = <<>>
    /\ warnings = <<>>
    /\ npc = "idle"
    /\ result = <<>>
    /\ raised = ""

Init == NormIdle /\ DashInit

Next ==
    \/ RunStart
    \/ Refresh
    \/ FetchTemp
    \/ FetchHumid
    \/ CheckFetched
    \/ Normalize
    \/ Present
    \/ Tick

Spec == Init /\ [][Next]_vars

----------------------------------------------------------------------------
(* Properties of process_data, checked under SpecNorm *)

Final == npc \in {"returned", "raised"}

Valid(entry) == ParseTime(entry).ok /\ ParseValue(entry).ok
BadValueOnly(entry) == ParseTime(entry).ok /\ ~ParseValue(entry).ok
NonNumericValue(entry) ==
    /\ ParseTime(entry).ok
    /\ "value" \in DOMAIN entry
    /\ ~float(entry.value).ok

\* The (timestamp, value) pairs of the valid records of a batch, in input order.
ValidPairs(items) ==
    LET good == SelectSeq(items, Valid)
    IN  [i \in 1..Len(good) |->
            [time |-> ParseTime(good[i]).val, value |-> ParseValue(good[i]).val]]

Pair(row) == [time |-> row.time, value |-> row.value]

\* The rows of frame are the pairs, each as often as it occurs in pairs.
SamePairs(frame, pairs) ==
    /\ Len(frame) = Len(pairs)
    /\ \E p \in IndexPermutations(Len(pairs)) :
          \A i \in 1..Len(pairs) : Pair(frame[i]) = pairs[p[i]]

\* The two formulations of process_data agree: what the statement-by-statement
\* run ends with is an outcome of the operator.
StepwiseAgrees ==
    Final => [kind |-> npc, frame |-> result, exc |-> raised] \in process_data(data)

\* C1: a batch holding a record whose created_at parses and whose value does
\* not still yields a Series of the remaining records: when the loop is done
\* times and values have the same length, and the call returns the valid pairs.
C1_BadValueRecordExcluded ==
    (~IsNone(data) /\ \E i \in 1..Len(data.items) : NonNumericValue(data.items[i]))
        => /\ idx > Len(data.items) => Len(times) = Len(values)
           /\ Final => /\ npc = "returned"
                       /\ SamePairs(result, ValidPairs(data.items))

\* C2: on a batch of valid records, in any order, process_data returns a
\* Series ascending in time whose index runs 0..n-1.
C2_SortedAscending ==
    (Final /\ ~IsNone(data) /\ \A i \in 1..Len(data.items) : Valid(data.items[i]))
        => /\ npc = "returned"
           /\ Len(result) = Len(data.items)
           /\ \A i, j \in 1..Len(result) :
                 i < j => Instant(result[i].time) <= Instant(result[j].time)
           /\ \A i \in 1..Len(result) : result[i].index = i - 1

\* A batch of valid records given out of order, across two zone designators,
\* has been normalized.
C2_Witness ==
    /\ npc = "returned"
    /\ ~IsNone(data)
    /\ Len(data.items) = 3
    /\ \A i \in 1..3 : Valid(data.items[i])
    /\ Instant(ParseTime(data.items[1]).val) > Instant(ParseTime(data.items[2]).val)
    /\ data.items[1].created_at.zone # data.items[2].created_at.zone

\* C6: None, the empty sequence and a batch of malformed records only each
\* yield an empty Series and no error.
C6_EmptyNullOrAllMalformedYieldsEmpty ==
    (Final /\ (IF IsNone(data) THEN TRUE
               ELSE \A i \in 1..Len(data.items) : ~Valid(data.items[i])))
        => npc = "returned" /\ result = <<>>

\* C7: for every batch the Series returned holds exactly the pairs of the
\* valid records, as a multiset, each value with its own timestamp.
C7_OutputIsExactlyValidPairs ==
    (Final /\ ~IsNone(data))
        => /\ npc = "returned"
           /\ SamePairs(result, ValidPairs(data.items))

\* What does hold of C7's statement: whenever process_data returns, the Series
\* is exactly the valid pairs; and it returns unless a value failed to parse
\* after its timestamp had parsed.
ReturnedIsExactlyValidPairs ==
    (Final /\ ~IsNone(data))
        => /\ npc = "returned" => SamePairs(result, ValidPairs(data.items))
           /\ npc = "raised" <=>
                 \E i \in 1..Len(data.items) : BadValueOnly(data.items[i])

----------------------------------------------------------------------------
(* Properties of get_feed_data and create_dashboard, checked under Spec *)

\* The step is the call get_feed_data(k) of the running script.
CallStep(k) == pc = FetchPc(k) /\ pc' # pc
\* ... and the call returned to create_dashboard.
ReturnedStep(k) == CallStep(k) /\ pc' = AfterFetch(k)
RetNext(k) == IF k = TEMP_FEED_KEY THEN temp_data_raw' ELSE humid_data_raw'
Raw(k) == IF k = TEMP_FEED_KEY THEN temp_data_raw ELSE humid_data_raw
Other(k) == IF k = TEMP_FEED_KEY THEN HUMID_FEED_KEY ELSE TEMP_FEED_KEY

\* The step issued exactly one request, for k.
RequestIssued(k) ==
    /\ Len(sent') = Len(sent) + 1
    /\ sent'[Len(sent')].key = k
    /\ SubSeq(sent', 1, Len(sent)) = sent

WithinWindow(k) == cache[k].present /\ now - cache[k].created < 600
RefreshStep == pc = "done" /\ pc' = "fetch_temp" /\ fresh' = FeedKeys

C4_MemoHitAndRefetchAfterClear ==
    [][/\ \A k \in FeedKeys :
             /\ (CallStep(k) /\ WithinWindow(k))
                   => /\ sent' = sent
                      /\ RetNext(k) = cache[k].value
                      /\ cache' = cache
             /\ (ReturnedStep(k) /\ ~WithinWindow(k))
                   => cache'[k].present /\ cache'[k].value = RetNext(k)
             /\ (CallStep(k) /\ k \in fresh) => RequestIssued(k)
       /\ RefreshStep => \A k \in FeedKeys : ~cache'[k].present
      ]_vars

\* A run 599 seconds after the fetches was served both feeds from the memo
\* table without a request.
C4_Witness ==
    /\ pc = "check"
    /\ sent = <<>>
    /\ now = 599
    /\ temp_data_raw = List(<<e2, e1>>)
    /\ humid_data_raw = List(<<e2, e1>>)
    /\ cache[TEMP_FEED_KEY].created = 0

\* C5: whatever way a request fails, get_feed_data returns None, reports an
\* error naming the feed, and lets no exception end the run.
C5_FailuresCollapseToNone ==
    \A i \in 1..Len(sent) :
        sent[i].response.kind \in {"transport", "http_status", "bad_json"}
            => /\ outcome # "exception"
               /\ Raw(sent[i].key) = NoneVal
               /\ \E j \in 1..Len(errors) : errors[j].feed = sent[i].key

\* Both requests of a run failed, one on the transport and one on the body.
C5_Witness ==
    /\ pc = "check"
    /\ Len(sent) = 2
    /\ sent[1].response.kind = "transport"
    /\ sent[2].response.kind = "bad_json"

\* C8 as stated: every run ends in the fetch-error message, the no-valid-data
\* warning or the rendered chart, and in no uncaught exception.
C8_RunEndsInOneOfThreeOutcomes ==
    pc = "done"
        => /\ outcome \in {"fetch_error", "no_data", "rendered"}
           /\ outcome = "fetch_error"
                 <=> AnyNone(temp_data_raw, humid_data_raw)
           /\ outcome = "no_data"
                 <=> /\ ~AnyNone(temp_data_raw, humid_data_raw)
                     /\ temp_df = <<>> /\ humid_df = <<>>

\* C9: an entry is reused only while younger than 600 seconds; a call on an
\* older entry issues a request and replaces the entry; a call for one key,
\* and the passing of time, leave the other key's entry as it was.
C9_EntryExpiresAfterTtl ==
    [][/\ \A k \in FeedKeys :
             /\ (CallStep(k) /\ cache[k].present /\ now - cache[k].created >= 600)
                   => /\ RequestIssued(k)
                      /\ ReturnedStep(k)
                            => /\ cache'[k] # cache[k]
                               /\ cache'[k].created = now
                               /\ cache'[k].value = RetNext(k)
             /\ (CallStep(k) /\ cache[k].present /\ sent' = sent)
                   => now - cache[k].created < 600
             /\ CallStep(k) => cache'[Other(k)] = cache[Other(k)]
       /\ now' # now => cache' = cache
      ]_vars

\* At 600 seconds the temperature entry has been replaced by a new fetch;
\* the humidity entry of second 0 is still in the table.
C9_Witness ==
    /\ pc = "fetch_humid"
    /\ Len(sent) = 1
    /\ now = 600
    /\ cache[TEMP_FEED_KEY].created = 600
    /\ cache[HUMID_FEED_KEY].present
    /\ cache[HUMID_FEED_KEY].created = 0

\* C10: a call that fetched and returned None leaves an entry holding None;
\* while that entry is within the window a call returns None without a
\* request; and a run that has a None result ends in the fetch-error message.
C10_FailureIsMemoized ==
    [][/\ \A k \in FeedKeys :
             /\ (ReturnedStep(k) /\ ~WithinWindow(k) /\ IsNone(RetNext(k)))
                   => /\ cache'[k].present
                      /\ IsNone(cache'[k].value)
                      /\ cache'[k].created = now
             /\ (CallStep(k) /\ WithinWindow(k) /\ IsNone(cache[k].value))
                   => IsNone(RetNext(k)) /\ sent' = sent
       /\ (pc # "done" /\ pc' = "done"
              /\ (IsNone(temp_data_raw') \/ IsNone(humid_data_raw')))
             => outcome' = "fetch_error"
      ]_vars

\* A later run, 599 seconds after a failed temperature fetch, ended in the
\* fetch-error message without a request.
C10_Witness ==
    /\ pc = "done"
    /\ outcome = "fetch_error"
    /\ sent = <<>>
    /\ now = 599
    /\ IsNone(temp_data_raw)
    /\ cache[TEMP_FEED_KEY].created = 0

====
